---- MODULE Spec2Model ----
(***************************************************************************)
(* The two log extractors of qm_lab3_geometry_optimization.ipynb, plot_R   *)
(* and plot_energy, with the notebook state they depend on: the global     *)
(* molecule_name, the files on disk and the file handles held open.        *)
(*                                                                         *)
(* A Python str is a sequence of one-character strings, so that find,      *)
(* strip, split, startswith and float are computed character by character  *)
(* the way the interpreter computes them.                                  *)
(***************************************************************************)
EXTENDS Integers, Sequences, FiniteSets, TLC

VARIABLES molecule_name, files, open_handles, ret, assigned

vars == <<molecule_name, files, open_handles, ret, assigned>>

----------------------------------------------------------------------------
(* Python str primitives.                                                  *)

\* the characters str.isspace accepts, among those a log line holds
Whitespace == {" ", "\t", "\n"}

DigitChars == <<"0", "1", "2", "3", "4", "5", "6", "7", "8", "9">>

IsDigit(c) == \E i \in 1..10 : DigitChars[i] = c

DigitValue(c) == (CHOOSE i \in 1..10 : DigitChars[i] = c) - 1

\* seq[i] with Python's 0-based index
Item(seq, i) == seq[i + 1]

\* whether seq[i] exists (else Python raises IndexError)
HasItem(seq, i) == i >= 0 /\ i < Len(seq)

\* s.startswith(prefix)
startswith(s, prefix) ==
    /\ Len(prefix) <= Len(s)
    /\ \A i \in 1..Len(prefix) : s[i] = prefix[i]

\* whether sub occurs in s at 0-based index i
OccursAt(s, sub, i) ==
    /\ i + Len(sub) <= Len(s)
    /\ \A k \in 1..Len(sub) : s[i + k] = sub[k]

\* s.find(sub): the lowest 0-based index where sub occurs, -1 when none
find(s, sub) ==
    LET hits == {i \in 0..Len(s) : OccursAt(s, sub, i)}
    IN  IF hits = {} THEN -1
        ELSE CHOOSE i \in hits : \A j \in hits : i <= j

\* s.strip(): leading and trailing whitespace removed
strip(s) ==
    LET keep == {i \in 1..Len(s) : s[i] \notin Whitespace}
    IN  IF keep = {} THEN <<>>
        ELSE LET lo == CHOOSE i \in keep : \A j \in keep : i <= j
                 hi == CHOOSE i \in keep : \A j \in keep : i >= j
             IN  SubSeq(s, lo, hi)

RECURSIVE SplitFrom(_, _, _, _)
\* the scan of s.split(): cur is the field being read, acc the fields read
SplitFrom(s, i, cur, acc) ==
    IF i > Len(s)
    THEN IF cur = <<>> THEN acc ELSE Append(acc, cur)
    ELSE IF s[i] \in Whitespace
         THEN SplitFrom(s, i + 1, <<>>, IF cur = <<>> THEN acc ELSE Append(acc, cur))
         ELSE SplitFrom(s, i + 1, Append(cur, s[i]), acc)

\* s.split(): the maximal runs of non-whitespace characters, in order
split(s) == SplitFrom(s, 1, <<>>, <<>>)

RECURSIVE str(_)
\* str(n) of a non-negative int: its decimal digits
str(n) ==
    IF n < 10 THEN <<DigitChars[n + 1]>>
    ELSE str(n \div 10) \o <<DigitChars[(n % 10) + 1]>>

\* s without one leading sign character
Unsigned(s) == IF Len(s) > 0 /\ s[1] \in {"+", "-"} THEN Tail(s) ELSE s

\* whether float(s) parses: an optional sign, then decimal digits with at
\* most one point and at least one digit (the exponent, inf, nan and
\* underscore forms are not produced by any field of the logs below)
FloatOK(s) ==
    LET u == Unsigned(s)
    IN  /\ \A i \in 1..Len(u) : IsDigit(u[i]) \/ u[i] = "."
        /\ Cardinality({i \in 1..Len(u) : u[i] = "."}) <= 1
        /\ \E i \in 1..Len(u) : IsDigit(u[i])

RECURSIVE DigitsValue(_)
DigitsValue(ds) ==
    IF ds = <<>> THEN 0
    ELSE 10 * DigitsValue(SubSeq(ds, 1, Len(ds) - 1)) + DigitValue(ds[Len(ds)])

RECURSIVE Normalize(_, _)
\* num / 10^places in lowest decimal form: equal numbers, equal records
Normalize(num, places) ==
    IF num = 0 THEN [num |-> 0, places |-> 0]
    ELSE IF places > 0 /\ num % 10 = 0 THEN Normalize(num \div 10, places - 1)
    ELSE [num |-> num, places |-> places]

\* float(s) for a string that parses: the number num / 10^places it denotes
float(s) ==
    LET u      == Unsigned(s)
        dots   == {i \in 1..Len(u) : u[i] = "."}
        places == IF dots = {} THEN 0 ELSE Len(u) - (CHOOSE i \in dots : TRUE)
        mag    == Normalize(DigitsValue(SelectSeq(u, IsDigit)), places)
    IN  IF Len(s) > 0 /\ s[1] = "-"
        THEN [num |-> 0 - mag.num, places |-> mag.places]
        ELSE mag

----------------------------------------------------------------------------
(* The outcome of a call: a returned list, or the exception that left it.  *)

Returned(value, read) ==
    [kind |-> "return", site |-> "return", value |-> value, read |-> read]

\* an exception propagates to the caller: the list built so far is dropped
Raised(kind, site, read) ==
    [kind |-> kind, site |-> site, value |-> <<>>, read |-> read]

----------------------------------------------------------------------------
(* plot_R                                                                  *)

LogSuffix ==
    "_geometry_optimization.dat"

\* molecule_name + '_geometry_optimization.dat'
log_path(name) == name \o LogSuffix

\* 'R(' + str(a) + ',' + str(b) + ')'
pair_notation(a, b) == <<"R", "(">> \o str(a) \o <<",">> \o str(b) \o <<")">>

\* the condition of the list comprehension on one line, with its short circuit:
\* "keep", "skip", or the IndexError of split()[1] on a line of one field
RowCondition(line, pn) ==
    IF ~(find(line, pn) > 1) THEN "skip"
    ELSE IF ~HasItem(split(strip(line)), 1) THEN "IndexError"
    ELSE IF startswith(Item(split(strip(line)), 1), pn) THEN "keep"
    ELSE "skip"

RECURSIVE rows_with_R_pairs(_, _, _, _)
\* [line.split() for line in f if ...]: the rows kept, or the exception
\* raised at line i, the lines after it never read
rows_with_R_pairs(lines, pn, i, rows) ==
    IF i > Len(lines)
    THEN [exc |-> "none", rows |-> rows, read |-> Len(lines)]
    ELSE LET c == RowCondition(lines[i], pn)
         IN  IF c = "IndexError"
             THEN [exc |-> "IndexError", rows |-> <<>>, read |-> i]
             ELSE rows_with_R_pairs(lines, pn, i + 1,
                     IF c = "keep" THEN Append(rows, split(lines[i])) ELSE rows)

RECURSIVE bond_distances_loop(_, _, _, _)
\* for item in rows_with_R_pairs: bond_distances.append(float(item[6]))
bond_distances_loop(rows, k, bond_distances, read) ==
    IF k > Len(rows) THEN Returned(bond_distances, read)
    ELSE IF ~HasItem(rows[k], 6) THEN Raised("IndexError", "item[6]", read)
    ELSE IF ~FloatOK(Item(rows[k], 6)) THEN Raised("ValueError", "float(item[6])", read)
    ELSE bond_distances_loop(rows, k + 1,
             Append(bond_distances, float(Item(rows[k], 6))), read)

\* first_sample with the first sample read from field 6, like the others
first_sample_field6(rows, read) ==
    IF ~HasItem(rows, 0) THEN Raised("IndexError", "rows[0]", read)
    ELSE IF ~HasItem(Item(rows, 0), 6) THEN Raised("IndexError", "rows[0][3]", read)
    ELSE IF ~FloatOK(Item(Item(rows, 0), 6))
         THEN Raised("ValueError", "float(rows[0][3])", read)
    ELSE Returned(<<float(Item(Item(rows, 0), 6))>>, read)

\* bond_distances = []; bond_distances.append(float(rows_with_R_pairs[0][3]))
first_sample(rows, read) ==
    IF ~HasItem(rows, 0) THEN Raised("IndexError", "rows[0]", read)
    ELSE IF ~HasItem(Item(rows, 0), 3) THEN Raised("IndexError", "rows[0][3]", read)
    ELSE IF ~FloatOK(Item(Item(rows, 0), 3))
         THEN Raised("ValueError", "float(rows[0][3])", read)
    ELSE Returned(<<float(Item(Item(rows, 0), 3))>>, read)

\* the body of plot_R under the with statement, on the lines of the open file
plot_R_body(lines, a, b) ==
    LET c == rows_with_R_pairs(lines, pair_notation(a, b), 1, <<>>)
    IN  IF c.exc # "none" THEN Raised(c.exc, "split()[1]", c.read)
        ELSE LET first == first_sample(c.rows, c.read)
             IN  IF first.kind # "return" THEN first
                 ELSE bond_distances_loop(c.rows, 1, first.value, c.read)

----------------------------------------------------------------------------
(* plot_energy                                                             *)

EnergyPrefix ==
    <<"C", "u", "r", "r", "e", "n", "t", " ", "e", "n", "e", "r", "g", "y">>

RECURSIVE energy_values_skip_short(_, _, _)
\* energy_values with a length guard: an energy line of fewer than four
\* fields is passed over
energy_values_skip_short(lines, i, values) ==
    IF i > Len(lines) THEN Returned(values, Len(lines))
    ELSE IF ~startswith(strip(lines[i]), EnergyPrefix)
         THEN energy_values_skip_short(lines, i + 1, values)
    ELSE IF ~HasItem(split(lines[i]), 3)
         THEN energy_values_skip_short(lines, i + 1, values)
    ELSE IF ~FloatOK(Item(split(lines[i]), 3))
         THEN Raised("ValueError", "float(split()[3])", i)
    ELSE energy_values_skip_short(lines, i + 1,
             Append(values, float(Item(split(lines[i]), 3))))

RECURSIVE energy_values_last_field(_, _, _)
\* energy_values reading the last field, split()[-1], in place of split()[3]
energy_values_last_field(lines, i, values) ==
    IF i > Len(lines) THEN Returned(values, Len(lines))
    ELSE IF ~startswith(strip(lines[i]), EnergyPrefix)
         THEN energy_values_last_field(lines, i + 1, values)
    ELSE LET fields == split(lines[i])
         IN  IF ~FloatOK(fields[Len(fields)])
             THEN Raised("ValueError", "float(split()[3])", i)
             ELSE energy_values_last_field(lines, i + 1,
                      Append(values, float(fields[Len(fields)])))

RECURSIVE energy_values(_, _, _)
\* [float(line.split()[3]) for line in f
\*     if line.strip().startswith('Current energy')]
energy_values(lines, i, values) ==
    IF i > Len(lines) THEN Returned(values, Len(lines))
    ELSE IF ~startswith(strip(lines[i]), EnergyPrefix)
         THEN energy_values(lines, i + 1, values)
    ELSE IF ~HasItem(split(lines[i]), 3) THEN Raised("IndexError", "split()[3]", i)
    ELSE IF ~FloatOK(Item(split(lines[i]), 3))
         THEN Raised("ValueError", "float(split()[3])", i)
    ELSE energy_values(lines, i + 1, Append(values, float(Item(split(lines[i]), 3))))

\* plot_energy_body that passes over the first line of the file
plot_energy_body_skip_first(lines) == energy_values(lines, 2, <<>>)

\* the body of plot_energy under the with statement
plot_energy_body(lines) == energy_values(lines, 1, <<>>)

----------------------------------------------------------------------------
(* The logs the extractors are run on: lines as the engine prints them and *)
(* lines that break the layout, each a str ending in a newline.            *)

RECURSIVE Joined(_, _)
\* the pieces with sep between them
Joined(pieces, sep) ==
    IF Len(pieces) = 0 THEN <<>>
    ELSE IF Len(pieces) = 1 THEN pieces[1]
    ELSE pieces[1] \o sep \o Joined(Tail(pieces), sep)

\* one line of the file: indent, the pieces two blanks apart, a newline
Line(indent, pieces) == indent \o Joined(pieces, <<" ", " ">>) \o <<"\n">>

\* the first report of R(1,2): the initial distance in field 3
DistInitial ==
    Line(<<"\t", " ">>,
         <<<<"1">>,
          pair_notation(1, 2),
          <<"=">>,
          <<"1", ".", "5", "1", "0">>,
          <<"0", ".", "1">>,
          <<"0", ".", "2">>,
          <<"1", ".", "5", "1", "0">>>>)

\* a later report of R(1,2): field 3 is 1.51, field 6 the new distance
DistIteration ==
    Line(<<"\t", " ">>,
         <<<<"1">>,
          pair_notation(1, 2),
          <<"=">>,
          <<"1", ".", "5", "1">>,
          <<"-", "0", ".", "0", "2">>,
          <<"x">>,
          <<"1", ".", "3", "9", "5">>>>)

\* a report of R(1,12), of which R(1,2) is no substring
DistOtherPair ==
    Line(<<" ", " ">>,
         <<<<"2">>,
          pair_notation(1, 12),
          <<"=">>,
          <<"2", ".", "0">>,
          <<"x">>,
          <<"x">>,
          <<"-", "1", ".", "2", "5">>>>)

\* a report cut after its third field
DistThreeFields ==
    Line(<<" ", " ">>,
         <<<<"1">>,
          pair_notation(1, 2),
          <<"=">>>>)

\* a report cut after its fifth field
DistFiveFields ==
    Line(<<" ", " ">>,
         <<<<"1">>,
          pair_notation(1, 2),
          <<"=">>,
          <<"1", ".", "5">>,
          <<"0", ".", "1">>>>)

\* a report whose field 3 is no number
DistBadInitial ==
    Line(<<" ", " ">>,
         <<<<"1">>,
          pair_notation(1, 2),
          <<"=">>,
          <<"a", "b", "c">>,
          <<"0">>,
          <<"0">>,
          <<"1", ".", "5">>>>)

\* a report whose field 6 is no number
DistBadNew ==
    Line(<<" ", " ">>,
         <<<<"1">>,
          pair_notation(1, 2),
          <<"=">>,
          <<"1", ".", "5">>,
          <<"0">>,
          <<"0">>,
          <<"N", "/", "A">>>>)

\* the token as the only field, at character index 2
TokenAloneIndented ==
    Line(<<" ", " ">>,
         <<pair_notation(1, 2)>>)

\* the token as the only field, at character index 0
TokenAloneAtStart ==
    Line(<<>>,
         <<pair_notation(1, 2)>>)

\* the token in the first field at index 0 and again opening the second field
TokenFirstAndSecond ==
    Line(<<>>,
         <<pair_notation(1, 2),
          pair_notation(1, 2) \o <<"*">>,
          <<"=">>,
          <<"1", ".", "5">>,
          <<"0">>,
          <<"0">>,
          <<"1", ".", "7">>>>)

\* the token in the third field of free text
TokenInComment ==
    Line(<<" ", " ">>,
         <<<<"s", "e", "e">>,
          <<"a", "l", "s", "o">>,
          pair_notation(1, 2),
          <<"h", "e", "r", "e">>>>)

\* an energy record
EnergyFirst ==
    Line(<<"\t">>,
         <<EnergyPrefix,
          <<":">>,
          <<"-", "2", "3", "0", ".", "7", "1", "2", "4", "5", "1">>>>)

\* an energy record with a unit after the value
EnergySecond ==
    Line(<<" ", " ">>,
         <<EnergyPrefix,
          <<"=">>,
          <<"-", "2", "3", "0", ".", "7", "1", "3", "0", "2", "1">>,
          <<"E", "h">>>>)

\* an energy record cut after the prefix
EnergyTwoFields ==
    Line(<<>>,
         <<EnergyPrefix>>)

\* an energy record whose field 3 is no number
EnergyBadValue ==
    Line(<<>>,
         <<EnergyPrefix,
          <<"=">>,
          <<"u", "n", "k", "n", "o", "w", "n">>>>)

\* an empty line
BlankLine ==
    Line(<<>>,
         <<>>)

LineSet ==
    {DistInitial,
     DistIteration,
     DistOtherPair,
     DistThreeFields,
     DistFiveFields,
     DistBadInitial,
     DistBadNew,
     TokenAloneIndented,
     TokenAloneAtStart,
     TokenFirstAndSecond,
     TokenInComment,
     EnergyFirst,
     EnergySecond,
     EnergyTwoFields,
     EnergyBadValue,
     BlankLine}

\* the longest log, in lines, the extractors are run on
MaxLines == 2

\* every log of at most MaxLines lines
Logs == UNION {[1..n -> LineSet] : n \in 0..MaxLines}

\* a complete optimization log: two reports of R(1,2) and two energies
GoodLog == <<DistInitial, EnergyFirst, DistIteration, EnergySecond>>

\* a log cut short inside its records
CutLog == <<DistInitial, DistFiveFields, EnergyTwoFields>>

\* a log whose values are not numbers
GarbledLog == <<DistBadNew, EnergyBadValue>>

\* what psi4.optimize may have written when it stops
EngineLogs == {GoodLog, CutLog, GarbledLog, <<>>}

\* the names the notebook gives molecule_name
MoleculeNames == {"benzene", "???"}

\* the atom pairs plot_R is called with
AtomPairs == {<<1, 2>>, <<1, 12>>, <<2, 1>>}

Paths == {log_path(n) : n \in MoleculeNames}

NoFile == [exists |-> FALSE, lines |-> <<>>]

File(lines) == [exists |-> TRUE, lines |-> lines]

----------------------------------------------------------------------------
(* The notebook's state and its cells. assigned records that molecule_name *)
(* has been assigned since the last extractor call (or that none was made).*)

NoCall ==
    [op |-> "none", a |-> 0, b |-> 0, path |-> "none",
     kind |-> "none", site |-> "none", value |-> <<>>, read |-> 0]

Call(op, a, b, path, outcome) ==
    [op |-> op, a |-> a, b |-> b, path |-> path,
     kind |-> outcome.kind, site |-> outcome.site,
     value |-> outcome.value, read |-> outcome.read]

\* extractor_path with the name bound once, when the functions were defined
extractor_path_frozen == log_path("benzene")

\* the path an extractor opens: built from the global at the time of the call
extractor_path == log_path(molecule_name)

\* open_ok of a mode that creates the file when it is missing
open_creates(file) == TRUE

\* open(path) succeeds only on a file that exists
open_ok(file) == file.exists

\* with_exit of a close() written after the body: skipped by an exception
with_exit_on_return(handles, path, outcome) ==
    IF outcome.kind = "return" THEN handles \ {path} ELSE handles

\* leaving the with block closes the handle, however the block is left
with_exit(handles, path, outcome) == handles \ {path}

\* with open(path) as f: body. The record of the call and the handles after
\* it; outcome is what the body does on the lines of the file, used only
\* when the file could be opened
Extract(op, a, b, outcome) ==
    LET path == extractor_path
    IN  IF open_ok(files[path])
        THEN [ret |-> Call(op, a, b, path, outcome),
              handles |-> with_exit(open_handles \cup {path}, path, outcome)]
        ELSE [ret |-> Call(op, a, b, path, Raised("FileNotFoundError", "open", 0)),
              handles |-> open_handles]

plot_R(a, b) ==
    \E done \in {Extract("plot_R", a, b,
                         plot_R_body(files[extractor_path].lines, a, b))} :
        /\ ret' = done.ret
        /\ open_handles' = done.handles
        /\ assigned' = FALSE
        /\ UNCHANGED <<molecule_name, files>>

plot_energy ==
    \E done \in {Extract("plot_energy", 0, 0,
                         plot_energy_body(files[extractor_path].lines))} :
        /\ ret' = done.ret
        /\ open_handles' = done.handles
        /\ assigned' = FALSE
        /\ UNCHANGED <<molecule_name, files>>

\* molecule_name = "..."
SetMoleculeName(name) ==
    /\ molecule_name' = name
    /\ assigned' = TRUE
    /\ UNCHANGED <<files, open_handles, ret>>

\* psi4.set_output_file(molecule_name + '_geometry_optimization.dat', False);
\* psi4.optimize(...): the log of the current name is replaced
Optimize(log) ==
    /\ files' = [files EXCEPT ![log_path(molecule_name)] = File(log)]
    /\ UNCHANGED <<molecule_name, open_handles, ret, assigned>>

\* the notebook after its first cell: the name set, nothing optimized yet
Init ==
    /\ molecule_name = "benzene"
    /\ files = [p \in Paths |-> NoFile]
    /\ open_handles = {}
    /\ ret = NoCall
    /\ assigned = TRUE

Next ==
    \/ \E name \in MoleculeNames : SetMoleculeName(name)
    \/ \E log \in EngineLogs : Optimize(log)
    \/ \E pair \in AtomPairs : plot_R(pair[1], pair[2])
    \/ plot_energy

Spec == Init /\ [][Next]_vars

\* the extractors on any log the file of the current name may hold
InitLogs ==
    /\ molecule_name = "benzene"
    /\ \E file \in {NoFile} \cup {File(log) : log \in Logs} :
           files = [p \in Paths |-> IF p = log_path("benzene") THEN file ELSE NoFile]
    /\ open_handles = {}
    /\ ret = NoCall
    /\ assigned = TRUE

NextLogs ==
    \/ \E pair \in AtomPairs : plot_R(pair[1], pair[2])
    \/ plot_energy

SpecLogs == InitLogs /\ [][NextLogs]_vars

----------------------------------------------------------------------------
(* What the claims speak of, read off the last call and the log it read.   *)
(* Under SpecLogs no file changes, so files[ret.path] is that log.         *)

\* the lines of the log the last call opened
LogRead == files[ret.path].lines

\* the token of the last plot_R call
Token == pair_notation(ret.a, ret.b)

CalledR == ret.op = "plot_R" /\ files[ret.path].exists

CalledEnergy == ret.op = "plot_energy" /\ files[ret.path].exists

\* the lines plot_R keeps, in file order
MatchingLines == SelectSeq(LogRead, LAMBDA l : RowCondition(l, Token) = "keep")

\* the lines whose stripped text begins with "Current energy", in file order
EnergyLines == SelectSeq(LogRead, LAMBDA l : startswith(strip(l), EnergyPrefix))

\* the i-th field (0-based) of a line is there and is a number
NumberAt(line, i) == HasItem(split(line), i) /\ FloatOK(Item(split(line), i))

\* the i-th field (0-based) of a line is there and is not a number
JunkAt(line, i) == HasItem(split(line), i) /\ ~FloatOK(Item(split(line), i))

\* no line makes the match test itself fail
TestDecides == \A i \in 1..Len(LogRead) : RowCondition(LogRead[i], Token) # "IndexError"

\* a well-formed log for plot_R: the test decides every line, and every
\* matching line carries its numbers (field 6; field 3 on the first)
WellFormedR ==
    /\ TestDecides
    /\ \A i \in 1..Len(MatchingLines) : NumberAt(MatchingLines[i], 6)
    /\ Len(MatchingLines) >= 1 => NumberAt(MatchingLines[1], 3)

\* a well-formed log for plot_energy: every energy line carries its number
WellFormedEnergy == \A i \in 1..Len(EnergyLines) : NumberAt(EnergyLines[i], 3)

\* the two-part test as the specification words it: the token occurs
\* anywhere in the line, and the second field of the stripped line starts
\* with it
TwoPartTest(line, pn) ==
    /\ find(line, pn) >= 0
    /\ HasItem(split(strip(line)), 1)
    /\ startswith(Item(split(strip(line)), 1), pn)

\* lines with the line put in before position pos (1..Len+1)
Inserted(lines, pos, line) ==
    SubSeq(lines, 1, pos - 1) \o <<line>> \o SubSeq(lines, pos, Len(lines))

----------------------------------------------------------------------------
(* C1: on a well-formed log with N >= 1 matching lines plot_R returns N+1  *)
(* values: field 3 of the first matching line, then field 6 of each        *)
(* matching line in file order.                                            *)
C1_SamplesOfMatchingLines ==
    (CalledR /\ WellFormedR /\ Len(MatchingLines) >= 1) =>
        /\ ret.kind = "return"
        /\ Len(ret.value) = Len(MatchingLines) + 1
        /\ ret.value[1] = float(Item(split(MatchingLines[1]), 3))
        /\ \A i \in 1..Len(MatchingLines) :
               ret.value[i + 1] = float(Item(split(MatchingLines[i]), 6))

\* two matching lines with different numbers, read in file order: the
\* scenario [1.510, 1.510, 1.395]
C1_Witness ==
    /\ CalledR /\ WellFormedR
    /\ LogRead = <<DistInitial, DistIteration>>
    /\ ret.value = <<[num |-> 151, places |-> 2], [num |-> 151, places |-> 2],
                     [num |-> 1395, places |-> 3]>>

(* C2: on a well-formed log with M >= 0 energy lines plot_energy returns   *)
(* M values, field 3 of each energy line in file order; with M = 0 the     *)
(* empty list and no error.                                                *)
C2_EnergyOfEachLine ==
    (CalledEnergy /\ WellFormedEnergy) =>
        /\ ret.kind = "return"
        /\ Len(ret.value) = Len(EnergyLines)
        /\ \A i \in 1..Len(EnergyLines) :
               ret.value[i] = float(Item(split(EnergyLines[i]), 3))

\* two energy lines, their values returned in file order
C2_Witness ==
    /\ CalledEnergy
    /\ LogRead = <<EnergySecond, EnergyFirst>>
    /\ ret.value = <<[num |-> -230713021, places |-> 6],
                     [num |-> -230712451, places |-> 6]>>

(* C3: on a log in which no line matches the token, plot_R fails with the  *)
(* IndexError of the first-element access and returns no sequence.         *)
C3_NoMatchFailsAtFirstElement ==
    (CalledR /\ \A i \in 1..Len(LogRead) : ~TwoPartTest(LogRead[i], Token)) =>
        /\ ret.kind = "IndexError"
        /\ ret.site = "rows[0]"
        /\ ret.value = <<>>

(* C5: plot_R treats a line as a match exactly when the token occurs       *)
(* anywhere in it and its second field starts with the token.              *)
C5_MatchIsTwoPartTest ==
    CalledR => \A i \in 1..Len(LogRead) :
        (RowCondition(LogRead[i], Token) = "keep") <=> TwoPartTest(LogRead[i], Token)

(* C9: a line that fails the two-part test, put anywhere into the log,     *)
(* changes neither the list plot_R returns nor the error it raises.        *)
C9_NonMatchingLineIsIgnored ==
    CalledR => \A line \in LineSet : \A pos \in 1..(Len(LogRead) + 1) :
        ~TwoPartTest(line, Token) =>
            LET with == plot_R_body(Inserted(LogRead, pos, line), ret.a, ret.b)
            IN  with.kind = ret.kind /\ with.value = ret.value

----------------------------------------------------------------------------
(* Missing and non-numeric fields of the lines the last call reads.        *)

\* a matching line lacks the field the call reads from it
LacksField ==
    \/ /\ CalledEnergy
       /\ \E i \in 1..Len(EnergyLines) : ~HasItem(split(EnergyLines[i]), 3)
    \/ /\ CalledR
       /\ \/ \E i \in 1..Len(MatchingLines) : ~HasItem(split(MatchingLines[i]), 6)
          \/ Len(MatchingLines) >= 1 /\ ~HasItem(split(MatchingLines[1]), 3)

\* a field the call reads is present but is not a number
JunkField ==
    \/ /\ CalledEnergy
       /\ \E i \in 1..Len(EnergyLines) : JunkAt(EnergyLines[i], 3)
    \/ /\ CalledR
       /\ \/ \E i \in 1..Len(MatchingLines) : JunkAt(MatchingLines[i], 6)
          \/ Len(MatchingLines) >= 1 /\ JunkAt(MatchingLines[1], 3)

\* a step that is a call of plot_R or plot_energy (a call that changes
\* nothing, repeating the last one, is a stuttering step)
ExtractorStep == ret' # ret \/ (assigned /\ ~assigned')

(* C4: when the log file does not exist, every call of plot_R and of       *)
(* plot_energy fails with FileNotFoundError before any line is read, and   *)
(* returns no sequence.                                                    *)
C4_MissingLogIsNotFound ==
    [][(ExtractorStep /\ ~files[log_path(molecule_name)].exists) =>
            /\ ret'.kind = "FileNotFoundError"
            /\ ret'.read = 0
            /\ ret'.value = <<>>]_vars

\* plot_energy, which returns [] on an empty log, failed on a missing one
C4_Witness ==
    /\ ret.op = "plot_energy"
    /\ ret.kind = "FileNotFoundError"
    /\ ~files[ret.path].exists

(* C6 as claimed: a matching line that lacks the field to be read makes    *)
(* the call fail with IndexError, and no partial sequence is returned.     *)
C6_MissingFieldIsIndexError ==
    LacksField => (ret.kind = "IndexError" /\ ret.value = <<>>)

(* C6 as amended: a matching line that lacks the field to be read makes    *)
(* the call fail and return nothing; the failure is IndexError when no     *)
(* field the call reads is present but not a number, and IndexError or     *)
(* ValueError otherwise.                                                   *)
C6_MissingFieldFails ==
    LacksField =>
        /\ ret.kind \in {"IndexError", "ValueError"}
        /\ ret.value = <<>>
        /\ ~JunkField => ret.kind = "IndexError"

\* the first row gave two samples, the second lacks field 6: nothing returned
C6_Witness ==
    /\ CalledR
    /\ LogRead = <<DistInitial, DistFiveFields>>
    /\ ret.kind = "IndexError" /\ ret.site = "item[6]" /\ ret.value = <<>>

(* C7 as claimed: a call returns a sequence or fails with                  *)
(* FileNotFoundError or IndexError; no other kind of error is raised,      *)
(* also when a field is present but is not a number.                       *)
C7_OnlyNotFoundOrIndexError ==
    ret.op # "none" => ret.kind \in {"return", "FileNotFoundError", "IndexError"}

(* C7 as amended: a call returns a sequence or fails with                  *)
(* FileNotFoundError (exactly when the log is missing), IndexError (only   *)
(* when an expected field is absent or plot_R has no matching line) or     *)
(* ValueError (only when a field it reads is present but not a number).    *)
C7_ErrorTaxonomy ==
    ret.op # "none" =>
        /\ ret.kind \in {"return", "FileNotFoundError", "IndexError", "ValueError"}
        /\ ret.kind = "FileNotFoundError" <=> ~files[ret.path].exists
        /\ ret.kind = "ValueError" => JunkField
        /\ ret.kind = "IndexError" =>
               \/ LacksField
               \/ CalledR /\ (~TestDecides \/ Len(MatchingLines) = 0)
        /\ ret.kind # "return" => ret.value = <<>>

\* a non-numeric energy made plot_energy raise ValueError
C7_Witness ==
    /\ CalledEnergy
    /\ LogRead = <<EnergyFirst, EnergyBadValue>>
    /\ ret.kind = "ValueError"

(* C8: after any sequence of calls, whichever way each call ended, no      *)
(* handle on a log remains open.                                           *)
C8_NoHandleLeftOpen == open_handles = {}

\* a call that opened the log and left by a ValueError, its handle closed
C8_Witness ==
    /\ ret.kind = "ValueError"
    /\ files[ret.path].exists
    /\ ret.path \notin open_handles

(* C10: every call opens the log named by molecule_name as it is when the  *)
(* call is made: calls with no assignment between them open the same       *)
(* path, and a call after a reassignment opens the new name's path, which  *)
(* fails when no log exists under that name.                               *)
C10_PathFollowsMoleculeName ==
    [][ExtractorStep =>
            /\ ret'.path = log_path(molecule_name)
            /\ (~assigned => ret'.path = ret.path)
            /\ ret'.kind = "FileNotFoundError" <=> ~files[log_path(molecule_name)].exists]_vars

\* after the reassignment to "???" a call opened its log, which no
\* optimization wrote, while the log of "benzene" exists
C10_Witness ==
    /\ molecule_name = "???"
    /\ ~assigned
    /\ ret.path = log_path("???")
    /\ ret.kind = "FileNotFoundError"
    /\ files[log_path("benzene")].exists

====
